---------------------------- MODULE Spec2Model ----------------------------
(***************************************************************************)
(* spsadiff (src/src/main.rs): fetch a tuning page, extract the           *)
(* "spsa-input" and "spsa-output" text blocks, parse each into UciOption  *)
(* records, score every positional pair by its range-normalised change,   *)
(* sort by magnitude and print a coloured report.                         *)
(*                                                                         *)
(* Text is modelled character by character: a &str is a sequence of       *)
(* one-character strings, so split(", "), lines(), split_once and         *)
(* contains are computed as the standard library computes them.           *)
(*                                                                         *)
(* An f64 is modelled as an exact value: a reduced fraction n/d (d > 0),  *)
(* or one of +inf, -inf, NaN.  Rounding and the sign of zero are outside  *)
(* the model; the numerals drawn below are plain decimals ([+-]digits     *)
(* with an optional fraction), the only form the tuning page emits.       *)
(***************************************************************************)
EXTENDS Integers, Sequences, FiniteSets, TLC

VARIABLES
    text,        \* parse_from_input harness: the argument `text`
    sort,        \* parse_from_input harness: the argument `sort`
    result,      \* parse_from_input harness: the value returned
    pc,          \* main: position in the body of main
    env,         \* main: the command line and what the network answers
    inputText,   \* main: `input` as bound at line 83 (a &str)
    outputText,  \* main: `output` as bound at line 92 (a &str)
    input,       \* main: `input` as bound at line 98 (a Vec<UciOption>)
    output,      \* main: `output` as bound at line 99
    pairs,       \* main: `pairs`, what remains to be iterated at line 121
    calls,       \* main: the parse_from_input calls made so far (their sort)
    stdout,      \* main: the lines printed so far
    exit         \* main: "running", "ok", "error" (Err returned), "panic"

vars == <<text, sort, result, pc, env, inputText, outputText, input, output,
          pairs, calls, stdout, exit>>

-----------------------------------------------------------------------------
(* Bounds of the model.                                                     *)

\* parse_from_input harness: a text has at most this many lines.
MaxLines == 2

\* parse_from_input harness: a line has at most this many ", "-separated fields.
MaxFields == 7

\* main: each of the two blocks of a page has at most this many lines.
MaxRows == 3

\* main: each of the two blocks of an edge-case page has at most this many lines.
MaxEdgeRows == 2

-----------------------------------------------------------------------------
(* Program constants.                                                       *)

CONTROL_GREY == "ESC[38;5;243m"

CONTROL_GREEN == "ESC[32m"

CONTROL_RED == "ESC[31m"

CONTROL_RESET == "ESC[0m"

\* `let line_width = 45;`
line_width == 45

\* The column budget of the first padding run, `36usize.saturating_sub(..)`.
PadBudget == 36

\* The column budget of the trailing padding run, `5usize.saturating_sub(..)`.
TailBudget == 5

\* `200 == response.status_code`
StatusOk == 200

-----------------------------------------------------------------------------
(* Option<T>.                                                               *)

None == [some |-> FALSE, v |-> 0]

Some(x) == [some |-> TRUE, v |-> x]

-----------------------------------------------------------------------------
(* f64: exact values.                                                       *)

Abs(n) == IF n < 0 THEN -n ELSE n

RECURSIVE Gcd(_, _)
Gcd(a, b) == IF b = 0 THEN a ELSE Gcd(b, a % b)

\* The fraction n/d (d # 0) in canonical form: reduced, denominator positive.
Fin(n, d) ==
    LET g == Gcd(Abs(n), Abs(d))
        s == IF d < 0 THEN -1 ELSE 1
    IN  [k |-> "fin", n |-> (s * n) \div g, d |-> Abs(d) \div g]

PInf == [k |-> "pinf", n |-> 1, d |-> 0]

NInf == [k |-> "ninf", n |-> -1, d |-> 0]

NaN == [k |-> "nan", n |-> 0, d |-> 0]

FNeg(a) ==
    CASE a.k = "fin" -> Fin(-a.n, a.d)
      [] a.k = "pinf" -> NInf
      [] a.k = "ninf" -> PInf
      [] OTHER -> NaN

\* f64::abs
FAbs(a) ==
    CASE a.k = "fin" -> Fin(Abs(a.n), a.d)
      [] a.k = "nan" -> NaN
      [] OTHER -> PInf

\* a - b
FSub(a, b) ==
    CASE a.k = "nan" \/ b.k = "nan" -> NaN
      [] a.k = "fin" /\ b.k = "fin" -> Fin(a.n * b.d - b.n * a.d, a.d * b.d)
      [] a.k = "fin" -> FNeg(b)
      [] b.k = "fin" -> a
      [] a.k = b.k -> NaN
      [] OTHER -> a

\* a / b
FDiv(a, b) ==
    CASE a.k = "nan" \/ b.k = "nan" -> NaN
      [] a.k = "fin" /\ b.k = "fin" ->
            IF b.n # 0 THEN Fin(a.n * b.d, a.d * b.n)
            ELSE IF a.n = 0 THEN NaN
            ELSE IF a.n > 0 THEN PInf ELSE NInf
      [] a.k = "fin" -> Fin(0, 1)
      [] b.k = "fin" -> IF (a.k = "pinf") = (b.n >= 0) THEN PInf ELSE NInf
      [] OTHER -> NaN

\* The rank of a value in f64::total_cmp's order: -inf < finite < +inf < NaN.
\* (Every NaN compared below has passed through abs(), so it is a positive one.)
FRank(a) ==
    CASE a.k = "ninf" -> 0
      [] a.k = "fin" -> 1
      [] a.k = "pinf" -> 2
      [] OTHER -> 3

\* f64::total_cmp(&a, &b)
total_cmp(a, b) ==
    IF FRank(a) # FRank(b)
    THEN (IF FRank(a) < FRank(b) THEN "Less" ELSE "Greater")
    ELSE IF a.k # "fin" THEN "Equal"
    ELSE IF a.n * b.d < b.n * a.d THEN "Less"
    ELSE IF a.n * b.d > b.n * a.d THEN "Greater"
    ELSE "Equal"

RECURSIVE FloorLog10(_)
FloorLog10(q) == IF q < 10 THEN 0 ELSE 1 + FloorLog10(q \div 10)

\* `x.abs().log10() as usize` for a finite x: the cast saturates, so a negative
\* logarithm (|x| < 1) and log10(0) = -inf both give 0.
Log10AsUsize(x) ==
    LET q == Abs(x.n) \div x.d
    IN  IF q = 0 THEN 0 ELSE FloorLog10(q)

\* usize::saturating_sub
saturating_sub(a, b) == IF b >= a THEN 0 ELSE a - b

-----------------------------------------------------------------------------
(* &str operations.                                                         *)

IsMatchAt(s, pat, i) ==
    /\ i + Len(pat) - 1 <= Len(s)
    /\ \A j \in 1..Len(pat) : s[i + j - 1] = pat[j]

\* The least index >= i at which pat occurs in s, or 0.
FindFrom(s, pat, i) ==
    LET hits == {j \in i..(Len(s) - Len(pat) + 1) : IsMatchAt(s, pat, j)}
    IN  IF hits = {} THEN 0
        ELSE CHOOSE j \in hits : \A h \in hits : j <= h

\* str::contains
contains(s, pat) == FindFrom(s, pat, 1) # 0

\* str::split_once: the text before and after the first occurrence.
split_once(s, pat) ==
    LET i == FindFrom(s, pat, 1)
    IN  IF i = 0 THEN None
        ELSE Some(<<SubSeq(s, 1, i - 1), SubSeq(s, i + Len(pat), Len(s))>>)

\* str::split(pat), collected: the pieces between the non-overlapping
\* occurrences of pat, found left to right.  Never empty.
RECURSIVE SplitFrom(_, _, _)
SplitFrom(s, pat, start) ==
    LET i == FindFrom(s, pat, start)
    IN  IF i = 0 THEN <<SubSeq(s, start, Len(s))>>
        ELSE <<SubSeq(s, start, i - 1)>> \o SplitFrom(s, pat, i + Len(pat))

split(s, pat) == SplitFrom(s, pat, 1)

\* str::lines(), collected: split after every "\n"; a piece loses its "\n"
\* and then a "\r" right before it; no empty piece follows a final "\n".
lines(s) ==
    LET ps == split(s, <<"\n">>)
        n  == Len(ps)
        strip(p) == IF Len(p) > 0 /\ p[Len(p)] = "\r"
                    THEN SubSeq(p, 1, Len(p) - 1) ELSE p
    IN  [i \in 1..(IF ps[n] = <<>> THEN n - 1 ELSE n) |->
            IF i < n THEN strip(ps[i]) ELSE ps[i]]

Digits == {"0", "1", "2", "3", "4", "5", "6", "7", "8", "9"}

DigitVal(c) ==
    CASE c = "0" -> 0 [] c = "1" -> 1 [] c = "2" -> 2 [] c = "3" -> 3
      [] c = "4" -> 4 [] c = "5" -> 5 [] c = "6" -> 6 [] c = "7" -> 7
      [] c = "8" -> 8 [] OTHER -> 9

RECURSIVE DigitsVal(_)
DigitsVal(s) ==
    IF s = <<>> THEN 0
    ELSE 10 * DigitsVal(SubSeq(s, 1, Len(s) - 1)) + DigitVal(s[Len(s)])

RECURSIVE Pow10(_)
Pow10(k) == IF k = 0 THEN 1 ELSE 10 * Pow10(k - 1)

\* str::parse::<f64>() on a decimal numeral: Ok(value), or Err with the
\* ParseFloatError kind ("Empty" for "", "Invalid" otherwise).
ParseF64(s) ==
    IF s = <<>> THEN [ok |-> FALSE, v |-> NaN, kind |-> "Empty"]
    ELSE
      LET signed == s[1] \in {"+", "-"}
          body   == IF signed THEN SubSeq(s, 2, Len(s)) ELSE s
          dot    == FindFrom(body, <<".">>, 1)
          ip     == IF dot = 0 THEN body ELSE SubSeq(body, 1, dot - 1)
          fp     == IF dot = 0 THEN <<>> ELSE SubSeq(body, dot + 1, Len(body))
          wf     == /\ \A i \in 1..Len(ip) : ip[i] \in Digits
                    /\ \A i \in 1..Len(fp) : fp[i] \in Digits
                    /\ Len(ip) + Len(fp) > 0
          mag    == DigitsVal(ip \o fp)
      IN  IF ~wf THEN [ok |-> FALSE, v |-> NaN, kind |-> "Invalid"]
          ELSE [ok |-> TRUE,
                v |-> Fin(IF s[1] = "-" THEN -mag ELSE mag, Pow10(Len(fp))),
                kind |-> "None"]

\* `s.parse().ok()`
ParseOk(s) == LET r == ParseF64(s) IN IF r.ok THEN Some(r.v) ELSE None

-----------------------------------------------------------------------------
(* parse_from_input.                                                        *)

\* Iterator::nth(n) on the fields `parts` with `pos` of them consumed: the
\* item (if any) and the number consumed afterwards.
IterNth(parts, pos, n) ==
    IF pos + n + 1 <= Len(parts)
    THEN [item |-> Some(parts[pos + n + 1]), pos |-> pos + n + 1]
    ELSE [item |-> None, pos |-> Len(parts)]

\* Iterator::next()
IterNext(parts, pos) == IterNth(parts, pos, 0)

ValIndexMut(s) == IF s = "Input" THEN 0 ELSE 1

\* `let val_index = match sort { Input => 1, Output => 0 }`
ValIndex(s) == IF s = "Input" THEN 1 ELSE 0

\* An anyhow::Error: what failed, and the context attached with with_context
\* (the line index and the raw line), if any.
Error(kind, ctx) == [kind |-> kind, ctx |-> ctx]

Ok(x) == [ok |-> TRUE, val |-> x, err |-> Error("None", <<>>)]

Err(e) == [ok |-> FALSE, val |-> <<>>, err |-> e]

\* `.and_then(|s| s.parse().ok())`
AndThenParse(o) == IF o.some THEN ParseOk(o.v) ELSE None

\* The closure of lines 32-54 on line l with index i.
ParseLine(i, l, s) ==
    LET parts == split(l, <<",", " ">>)
        name  == IterNext(parts, 0)
        val   == IterNth(parts, name.pos, ValIndex(s))
        min   == IterNext(parts, val.pos)
        max   == IterNext(parts, min.pos)
        step  == IterNext(parts, max.pos)
        ctx   == <<[line |-> i, raw |-> l]>>
        value == ParseF64(val.item.v)
    IN  IF ~name.item.some THEN Err(Error("No name part", ctx))
        ELSE IF ~val.item.some THEN Err(Error("No value part", ctx))
        ELSE IF ~value.ok THEN Err(Error(value.kind, <<>>))
        ELSE Ok([name  |-> name.item.v,
                 value |-> value.v,
                 min   |-> AndThenParse(min.item),
                 max   |-> AndThenParse(max.item),
                 step  |-> AndThenParse(step.item)])

\* `.enumerate().map(..).collect::<Result<Vec<_>, _>>()` from line i on (i is
\* 0-based, as enumerate() counts), acc being the records collected so far:
\* the first Err ends the iteration, else every Ok value is kept.
RECURSIVE CollectFrom(_, _, _, _)
CollectFrom(ls, i, s, acc) ==
    IF i >= Len(ls) THEN Ok(acc)
    ELSE LET r == ParseLine(i, ls[i + 1], s)
         IN  IF r.ok THEN CollectFrom(ls, i + 1, s, Append(acc, r.val)) ELSE r

parse_from_input(t, s) == CollectFrom(lines(t), 0, s, <<>>)

-----------------------------------------------------------------------------
(* The texts parse_from_input is called on in the harness.                  *)

RECURSIVE Join(_, _)
Join(fs, sep) ==
    IF fs = <<>> THEN <<>>
    ELSE IF Len(fs) = 1 THEN fs[1]
    ELSE fs[1] \o sep \o Join(Tail(fs), sep)

CommaSpace == <<",", " ">>

\* Field patterns: a name followed by further fields; a line is a prefix of
\* one of them.
FieldPatterns ==
    { << <<"A", "W">>, <<"i", "n", "t">>, <<"6", ".", "0">>, <<"1", ".", "0">>,
         <<"5", "0", ".", "0">>, <<"3", ".", "0">>, <<"0", ".", "0", "0", "2">>,
         <<"+", "4">> >>,
      << <<"R", "F", "P">>, <<"5">>, <<"1">>, <<"2">>, <<"3">> >>,
      << <<"N">>, <<"i", "n", "t">>, <<"x">> >>,
      << <<"H">>, <<"7">>, <<"-", "2", "5", "0", "0", ".", "0">>, <<"x">>,
         <<>>, <<"9">> >> }

Min(a, b) == IF a < b THEN a ELSE b

\* The empty line, and every line made of the first k fields of a pattern.
HarnessLines ==
    {<<>>} \cup
    {Join(SubSeq(p, 1, Min(k, Len(p))), CommaSpace) :
        p \in FieldPatterns, k \in 1..MaxFields}

\* How the lines of a text end: "\n" between lines, "\n" after every line,
\* or "\r\n" after every line.
LineEndings == {"lf", "lf-final", "crlf-final"}

TextOf(ls, ending) ==
    CASE ending = "lf" -> Join(ls, <<"\n">>)
      [] ending = "lf-final" ->
            Join([i \in 1..Len(ls) |-> ls[i] \o <<"\n">>], <<>>)
      [] OTHER ->
            Join([i \in 1..Len(ls) |-> ls[i] \o <<"\r", "\n">>], <<>>)

\* tests::EXAMPLE_INPUT (lines 144-149).
EXAMPLE_INPUT ==
    <<"A", "S", "P", "I", "R", "A", "T", "I", "O", "N", "_", "W", "I", "N",
       "D", "O", "W", ",", " ", "i", "n", "t", ",", " ", "6", ".", "0", ",",
       " ", "1", ".", "0", ",", " ", "5", "0", ".", "0", ",", " ", "3", ".",
       "0", ",", " ", "0", ".", "0", "0", "2", "\n", "R", "F", "P", "_", "M",
       "A", "R", "G", "I", "N", ",", " ", "i", "n", "t", ",", " ", "7", "3",
       ".", "0", ",", " ", "4", "0", ".", "0", ",", " ", "2", "0", "0", ".",
       "0", ",", " ", "1", "0", ".", "0", ",", " ", "0", ".", "0", "0", "2",
       "\n", "R", "F", "P", "_", "I", "M", "P", "R", "O", "V", "I", "N", "G",
       "_", "M", "A", "R", "G", "I", "N", ",", " ", "i", "n", "t", ",", " ",
       "5", "8", ".", "0", ",", " ", "3", "0", ".", "0", ",", " ", "1", "5",
       "0", ".", "0", ",", " ", "1", "0", ".", "0", ",", " ", "0", ".", "0",
       "0", "2", "\n", "D", "O", "_", "D", "E", "E", "P", "E", "R", "_", "D",
       "E", "P", "T", "H", "_", "M", "A", "R", "G", "I", "N", ",", " ", "i",
       "n", "t", ",", " ", "1", "1", ".", "0", ",", " ", "1", ".", "0", ",",
       " ", "5", "0", ".", "0", ",", " ", "2", ".", "0", ",", " ", "0", ".",
       "0", "0", "2", "\n", "H", "I", "S", "T", "O", "R", "Y", "_", "P", "R",
       "U", "N", "I", "N", "G", "_", "D", "E", "P", "T", "H", ",", " ", "i",
       "n", "t", ",", " ", "7", ".", "0", ",", " ", "2", ".", "0", ",", " ",
       "1", "4", ".", "0", ",", " ", "1", ".", "0", ",", " ", "0", ".", "0",
       "0", "2", "\n", "H", "I", "S", "T", "O", "R", "Y", "_", "P", "R", "U",
       "N", "I", "N", "G", "_", "M", "A", "R", "G", "I", "N", ",", " ", "i",
       "n", "t", ",", " ", "-", "2", "5", "0", "0", ".", "0", ",", " ", "-",
       "5", "0", "0", "0", ".", "0", ",", " ", "1", "0", "0", "0", ".", "0",
       ",", " ", "5", "0", "0", ".", "0", ",", " ", "0", ".", "0", "0", "2">>

\* tests::EXAMPLE_OUTPUT (lines 151-156).
EXAMPLE_OUTPUT ==
    <<"A", "S", "P", "I", "R", "A", "T", "I", "O", "N", "_", "W", "I", "N",
       "D", "O", "W", ",", " ", "5", "\n", "R", "F", "P", "_", "M", "A", "R",
       "G", "I", "N", ",", " ", "7", "3", "\n", "R", "F", "P", "_", "I", "M",
       "P", "R", "O", "V", "I", "N", "G", "_", "M", "A", "R", "G", "I", "N",
       ",", " ", "5", "8", "\n", "D", "O", "_", "D", "E", "E", "P", "E", "R",
       "_", "D", "E", "P", "T", "H", "_", "M", "A", "R", "G", "I", "N", ",",
       " ", "1", "1", "\n", "H", "I", "S", "T", "O", "R", "Y", "_", "P", "R",
       "U", "N", "I", "N", "G", "_", "D", "E", "P", "T", "H", ",", " ", "7",
       "\n", "H", "I", "S", "T", "O", "R", "Y", "_", "P", "R", "U", "N", "I",
       "N", "G", "_", "M", "A", "R", "G", "I", "N", ",", " ", "-", "2", "4",
       "7", "4">>

HarnessTexts ==
    {TextOf(ls, e) :
        ls \in UNION {[1..n -> HarnessLines] : n \in 0..MaxLines},
        e \in LineEndings}
    \cup {EXAMPLE_INPUT, EXAMPLE_OUTPUT}

IOSort == {"Input", "Output"}

-----------------------------------------------------------------------------
(* The parse_from_input harness: one call on a text and a sort.             *)

NotCalled == Err(Error("not called", <<>>))

\* The variables of main, idle in the harness.
MainIdle ==
    /\ env = [url |-> FALSE, send_ok |-> FALSE, utf8 |-> FALSE,
              status_code |-> 0, body |-> <<>>]
    /\ inputText = <<>>
    /\ outputText = <<>>
    /\ input = <<>>
    /\ output = <<>>
    /\ pairs = <<>>
    /\ calls = <<>>
    /\ stdout = <<>>
    /\ exit = "running"

InitParse ==
    /\ text \in HarnessTexts
    /\ sort \in IOSort
    /\ result = NotCalled
    /\ pc = "call"
    /\ MainIdle

CallParse ==
    /\ pc = "call"
    /\ result' = parse_from_input(text, sort)
    /\ pc' = "returned"
    /\ UNCHANGED <<text, sort, env, inputText, outputText, input, output,
                   pairs, calls, stdout, exit>>

NextParse == CallParse

SpecParse == InitParse /\ [][NextParse]_vars

-----------------------------------------------------------------------------
(* Claims about parse_from_input (checked under SpecParse).                  *)

\* The 0-based index of the field that holds the value.
ValueField(s) == IF s = "Input" THEN 2 ELSE 1

\* The text of line l before its first ", " (the whole line if it has none).
BeforeFirstSep(l) ==
    LET i == FindFrom(l, CommaSpace, 1)
    IN  IF i = 0 THEN l ELSE SubSeq(l, 1, i - 1)

\* Field k (0-based) of the fields fs holds a number.
HasNumber(fs, k) == Len(fs) > k /\ ParseF64(fs[k + 1]).ok

\* The number in field k (0-based) of the fields fs, absent if there is no
\* such field or it is not a number.
NumberAt(fs, k) == IF Len(fs) > k THEN ParseOk(fs[k + 1]) ELSE None

WellFormedLine(l, s) == HasNumber(split(l, CommaSpace), ValueField(s))

AllWellFormed ==
    LET ls == lines(text) IN \A i \in 1..Len(ls) : WellFormedLine(ls[i], sort)

\* C2: on a text whose lines are all well-formed, parse_from_input returns one
\* record per line, in line order; a record's name is the text before the
\* first ", ", its value the number in field 2 (Input) or field 1 (Output);
\* in Input mode min, max, step are the numbers in fields 3, 4, 5; an Output
\* line with exactly two fields has min, max and step absent.
C2_WellFormedParse ==
    (pc = "returned" /\ AllWellFormed) =>
      LET ls == lines(text) IN
        /\ result.ok
        /\ Len(result.val) = Len(ls)
        /\ \A i \in 1..Len(ls) :
             LET l  == ls[i]
                 fs == split(l, CommaSpace)
                 r  == result.val[i]
             IN  /\ r.name = BeforeFirstSep(l)
                 /\ Some(r.value) = NumberAt(fs, ValueField(sort))
                 /\ sort = "Input" =>
                      /\ r.min = NumberAt(fs, 3)
                      /\ r.max = NumberAt(fs, 4)
                      /\ r.step = NumberAt(fs, 5)
                 /\ (sort = "Output" /\ Len(fs) = 2) =>
                      (r.min = None /\ r.max = None /\ r.step = None)

\* A two-line Input text is parsed whose second line has seven fields, with
\* value 6, min 1, max 50 and step 3.
C2_Witness ==
    /\ pc = "returned"
    /\ sort = "Input"
    /\ result.ok
    /\ Len(result.val) = 2
    /\ AllWellFormed
    /\ Len(split(lines(text)[2], CommaSpace)) = 7
    /\ result.val[2].name = <<"A", "W">>
    /\ result.val[2].value = Fin(6, 1)
    /\ result.val[2].min = Some(Fin(1, 1))
    /\ result.val[2].max = Some(Fin(50, 1))
    /\ result.val[2].step = Some(Fin(3, 1))

\* C3: every record returned in Output mode has min, max and step absent.
C3_OutputHasNoBounds ==
    (pc = "returned" /\ sort = "Output" /\ result.ok) =>
        \A i \in 1..Len(result.val) :
            /\ result.val[i].min = None
            /\ result.val[i].max = None
            /\ result.val[i].step = None

\* The lines of the text that lack the value field or hold no number in it
\* (a line always has a name field).
FailingLines ==
    LET ls == lines(text) IN {i \in 1..Len(ls) : ~WellFormedLine(ls[i], sort)}

FirstFailing == CHOOSE i \in FailingLines : \A j \in FailingLines : i <= j

\* C4: parse_from_input fails exactly when some line lacks its value field or
\* has a value that is no number; it then returns no records, and its error
\* carries the 0-based index and the raw text of the first such line.
C4_ErrorsAnnotated ==
    pc = "returned" =>
        /\ result.ok <=> FailingLines = {}
        /\ FailingLines # {} =>
             /\ result.val = <<>>
             /\ result.err.ctx = <<[line |-> FirstFailing - 1,
                                    raw |-> lines(text)[FirstFailing]]>>

\* What does hold of a failing call: the error is decided by the first
\* failing line, and it is annotated exactly when the value field is missing.
C4_AsImplemented ==
    pc = "returned" =>
        /\ result.ok <=> FailingLines = {}
        /\ FailingLines # {} =>
             LET l == lines(text)[FirstFailing]
                 fs == split(l, CommaSpace)
             IN  /\ result.val = <<>>
                 /\ Len(fs) <= ValueField(sort) =>
                      /\ result.err.kind = "No value part"
                      /\ result.err.ctx = <<[line |-> FirstFailing - 1, raw |-> l]>>
                 /\ Len(fs) > ValueField(sort) =>
                      /\ result.err.kind \in {"Empty", "Invalid"}
                      /\ result.err.ctx = <<>>

-----------------------------------------------------------------------------
(* main: scoring, sorting and rendering.                                    *)

\* Lines 105-107: the change of a (before, after) pair, as a fraction of the
\* before-record's range.
ChangeFractionMut(before, after) ==
    FDiv(FSub(after.value, before.value), FAbs(before.value))

ChangeFraction(before, after) ==
    LET range == FSub(IF before.max.some THEN before.max.v ELSE PInf,
                      IF before.min.some THEN before.min.v ELSE NInf)
        diff  == FSub(after.value, before.value)
    IN  FDiv(diff, range)

\* Lines 101-110: `input.into_iter().zip(output).map(..).collect()`.  zip ends
\* with the shorter of the two.  `pos` is not program state: it records the
\* position of the pair before sorting.
ScoredPairs(ins, outs) ==
    [i \in 1..Min(Len(ins), Len(outs)) |->
        [before |-> ins[i], after |-> outs[i],
         frac |-> ChangeFraction(ins[i], outs[i]), pos |-> i]]

ByMagnitudeMut(a, b) == total_cmp(FAbs(a.frac), FAbs(b.frac))

\* The comparator of line 112: `f64::total_cmp(&bk.abs(), &ak.abs())`.
ByMagnitude(a, b) == total_cmp(FAbs(b.frac), FAbs(a.frac))

\* x inserted into the sorted s after every element that does not compare
\* Greater than it.
RECURSIVE InsertSorted(_, _)
InsertSorted(s, x) ==
    IF s = <<>> THEN <<x>>
    ELSE IF ByMagnitude(s[Len(s)], x) = "Greater"
         THEN Append(InsertSorted(SubSeq(s, 1, Len(s) - 1), x), s[Len(s)])
         ELSE Append(s, x)

\* slice::sort_by (a stable sort) with the comparator of line 112.
RECURSIVE sort_by(_)
sort_by(s) ==
    IF s = <<>> THEN <<>>
    ELSE InsertSorted(sort_by(SubSeq(s, 1, Len(s) - 1)), s[Len(s)])

ControlMut(before, after) ==
    LET c == total_cmp(before.value, after.value)
    IN  CASE c = "Less" -> CONTROL_RED
          [] c = "Equal" -> CONTROL_GREY
          [] OTHER -> CONTROL_GREEN

\* Lines 123-127.
Control(before, after) ==
    LET c == total_cmp(after.value, before.value)
    IN  CASE c = "Less" -> CONTROL_RED
          [] c = "Equal" -> CONTROL_GREY
          [] OTHER -> CONTROL_GREEN

\* `usize::from(x < 0.0)`
IsNegative(x) == IF x.n < 0 THEN 1 ELSE 0

PadMut(before) ==
    saturating_sub(PadBudget,
                   Len(before.name) + (Log10AsUsize(before.value) + 1)
                       + IsNegative(before.value))

\* Line 131: the number of "." between the name and the before-value.
Pad(before) ==
    saturating_sub(PadBudget,
                   Len(before.name) + Log10AsUsize(before.value)
                       + IsNegative(before.value))

\* Line 135: the number of "." that end the row.
TailPad(after) ==
    saturating_sub(TailBudget,
                   Log10AsUsize(after.value) + IsNegative(after.value))

\* A piece of a printed line: literal text (str), the characters of a name
\* (chars), a run of n equal characters (str, n), or a number (x).
Seg(kind, str, chars, n, x) ==
    [kind |-> kind, str |-> str, chars |-> chars, n |-> n, x |-> x]

Lit(str) == Seg("lit", str, <<>>, 1, Fin(0, 1))

Run(str, n) == Seg("run", str, <<>>, n, Fin(0, 1))

Num(x) == Seg("num", "", <<>>, 1, x)

NoPair == [pos |-> 0, frac |-> Fin(0, 1)]

\* A printed line.  `pair` is not output: on an option row it records the
\* pair rendered (its position before sorting and its change fraction).
Line(kind, segs, pair) == [kind |-> kind, segs |-> segs, pair |-> pair]

\* Lines 128-136:
\* "{} {pad} {before} -> {control}{after}{CONTROL_RESET} {tail}".
Row(p) ==
    Line("row",
         << Seg("name", "", p.before.name, 1, Fin(0, 1)),
            Lit(" "), Run(".", Pad(p.before)), Lit(" "),
            Num(p.before.value), Lit(" -> "),
            Lit(Control(p.before, p.after)), Num(p.after.value),
            Lit(CONTROL_RESET), Lit(" "), Run(".", TailPad(p.after)) >>,
         [pos |-> p.pos, frac |-> p.frac])

\* Lines 115-120.
Header ==
    << Line("blank", <<>>, NoPair),
       Line("header",
            <<Lit("OPTION NAME "), Run(" ", line_width - 20), Lit(" CHANGE")>>,
            NoPair),
       Line("rule", <<Run("-", line_width + 5)>>, NoPair) >>

-----------------------------------------------------------------------------
(* main: fetching and extracting.                                           *)

HtmlClose == <<"<", "/", "h", "t", "m", "l", ">">>

SpsaInput == <<"s", "p", "s", "a", "-", "i", "n", "p", "u", "t">>

SpsaOutput == <<"s", "p", "s", "a", "-", "o", "u", "t", "p", "u", "t">>

FetchCheckMut(e) ==
    IF ~e.send_ok THEN "send failed"
    ELSE IF ~e.utf8 THEN "invalid utf-8"
    ELSE IF ~contains(e.body, HtmlClose) THEN "HTML CLOSING TAG NOT FOUND IN TEXT"
    ELSE "ok"

\* Lines 65-75: the first failure among send(), as_str() and the two
\* ensure!, or "ok".
FetchCheck(e) ==
    IF ~e.send_ok THEN "send failed"
    ELSE IF ~e.utf8 THEN "invalid utf-8"
    ELSE IF ~contains(e.body, HtmlClose) THEN "HTML CLOSING TAG NOT FOUND IN TEXT"
    ELSE IF StatusOk # e.status_code THEN "RESPONSE 200 OK NOT FOUND"
    ELSE "ok"

Extracted(msg, i, o) == [msg |-> msg, input |-> i, output |-> o]

\* Lines 77-94: six split_once in a row, each on the rest left by the one
\* before; the first that finds nothing ends main with its message.
Extract(t) ==
    LET s1 == split_once(t, SpsaInput) IN
    IF ~s1.some THEN Extracted("Did not find \"spsa-input\" in page.", <<>>, <<>>) ELSE
    LET s2 == split_once(s1.v[2], <<">">>) IN
    IF ~s2.some THEN Extracted("Did not find end of tag after \"spsa-input\".", <<>>, <<>>) ELSE
    LET s3 == split_once(s2.v[2], <<"<">>) IN
    IF ~s3.some THEN Extracted("Did not find start of tag after SPSA input data.", <<>>, <<>>) ELSE
    LET s4 == split_once(s3.v[2], SpsaOutput) IN
    IF ~s4.some THEN Extracted("Did not find \"spsa-output\" in page.", <<>>, <<>>) ELSE
    LET s5 == split_once(s4.v[2], <<">">>) IN
    IF ~s5.some THEN Extracted("Did not find end of tag after \"spsa-output\".", <<>>, <<>>) ELSE
    LET s6 == split_once(s5.v[2], <<"<">>) IN
    IF ~s6.some THEN Extracted("Did not find start of tag after SPSA output data.", <<>>, <<>>)
    ELSE Extracted("ok", s3.v[1], s6.v[1])

-----------------------------------------------------------------------------
(* main: what it is run on.                                                 *)

\* The lines the spsa-input blocks are made of.
InLines ==
    { Join(<<<<"A">>, <<"i", "n", "t">>, <<"6", ".", "0">>, <<"1", ".", "0">>, <<"5", "0", ".", "0">>>>, CommaSpace),
      Join(<<<<"B">>, <<"i", "n", "t">>, <<"7", "3", ".", "0">>, <<"4", "0", ".", "0">>, <<"2", "0", "0", ".", "0">>>>, CommaSpace),
      Join(<<<<"A">>, <<"i", "n", "t">>, <<"-", "2", "5", "0", "0", ".", "0">>>>, CommaSpace) }

\* The lines the spsa-output blocks are made of.
OutLines ==
    { Join(<<<<"A">>, <<"5">>>>, CommaSpace),
      Join(<<<<"B">>, <<"7", "3">>>>, CommaSpace) }

\* A name as long as the whole column budget of line 131.
LongName == [i \in 1..PadBudget |-> "L"]

\* Edge cases: a long name, equal bounds (a zero range), all seven fields.
EdgeInLines ==
    { Join(<<LongName, <<"i", "n", "t">>, <<"7", "3", ".", "0">>, <<"4", "0", ".", "0">>, <<"2", "0", "0", ".", "0">>, <<"1", "0", ".", "0">>, <<"0", ".", "0", "0", "2">>>>, CommaSpace),
      Join(<<<<"A">>, <<"i", "n", "t">>, <<"5">>, <<"7">>, <<"7">>>>, CommaSpace),
      Join(<<<<"A">>, <<"i", "n", "t">>, <<"0", ".", "5">>, <<"0">>, <<"1", "0">>>>, CommaSpace) }

EdgeOutLines ==
    { Join(<<LongName, <<"7", "3">>>>, CommaSpace),
      Join(<<<<"A">>, <<"5">>>>, CommaSpace),
      Join(<<<<"A">>, <<"-", "2", "4", "7", "4">>>>, CommaSpace) }

\* The blocks of at most n lines drawn from ls.
Blocks(ls, n) ==
    {TextOf(b, "lf") : b \in UNION {[1..k -> ls] : k \in 0..n}}

\* Three options that change by 1/2, 1/50 and 1/10 of their range.
RankedInput ==
    <<"A", ",", " ", "i", "n", "t", ",", " ", "5", ",", " ", "0", ",", " ",
       "1", "0", "\n", "B", ",", " ", "i", "n", "t", ",", " ", "5", ",", " ",
       "0", ",", " ", "5", "0", "\n", "C", ",", " ", "i", "n", "t", ",", " ",
       "5", ",", " ", "0", ",", " ", "1", "0">>

RankedOutput ==
    <<"A", ",", " ", "1", "0", "\n", "B", ",", " ", "6", "\n", "C", ",", " ",
       "6">>

\* The pieces of a page around its two blocks, in order.
PagePieces ==
    << SpsaInput, <<">">>, <<"<">>, SpsaOutput, <<">">>, <<"<">>, HtmlClose >>

\* The page that has the pieces numbered in m, around the blocks i and o.
Page(m, i, o) ==
    LET P(k) == IF k \in m THEN PagePieces[k] ELSE <<>>
    IN  P(1) \o P(2) \o i \o P(3) \o P(4) \o P(5) \o o \o P(6) \o P(7)

AllPieces == 1..Len(PagePieces)

Response(status, body) ==
    [url |-> TRUE, send_ok |-> TRUE, utf8 |-> TRUE,
     status_code |-> status, body |-> body]

SampleIn == Join(<<<<"A">>, <<"i", "n", "t">>, <<"6", ".", "0">>, <<"1", ".", "0">>, <<"5", "0", ".", "0">>>>, CommaSpace)

SampleOut == Join(<<<<"A">>, <<"5">>>>, CommaSpace)

Envs ==
    \* no URL argument; send() fails; the body is not UTF-8
    { [url |-> FALSE, send_ok |-> FALSE, utf8 |-> FALSE,
       status_code |-> 0, body |-> <<>>],
      [url |-> TRUE, send_ok |-> FALSE, utf8 |-> FALSE,
       status_code |-> 0, body |-> <<>>],
      [url |-> TRUE, send_ok |-> TRUE, utf8 |-> FALSE,
       status_code |-> StatusOk, body |-> <<>>] }
    \* pages with any of the pieces missing, answered with 200 or 404
    \cup { Response(st, Page(m, SampleIn, SampleOut)) :
             st \in {StatusOk, 404}, m \in SUBSET AllPieces }
    \* complete pages with a block that does not parse
    \cup { Response(StatusOk, Page(AllPieces, <<"A">>, SampleOut)),
           Response(StatusOk, Page(AllPieces, SampleIn, <<"A", ",", " ", "x">>)) }
    \* complete pages around the blocks of the test module, and around three
    \* options to rank
    \cup { Response(StatusOk, Page(AllPieces, EXAMPLE_INPUT, EXAMPLE_OUTPUT)),
           Response(StatusOk, Page(AllPieces, RankedInput, RankedOutput)) }
    \* complete pages, answered with 200, around every pair of blocks
    \cup { Response(StatusOk, Page(AllPieces, i, o)) :
             i \in Blocks(InLines, MaxRows), o \in Blocks(OutLines, MaxRows) }
    \cup { Response(StatusOk, Page(AllPieces, i, o)) :
             i \in Blocks(EdgeInLines, MaxEdgeRows),
             o \in Blocks(EdgeOutLines, MaxEdgeRows) }

-----------------------------------------------------------------------------
(* main.                                                                    *)

\* The variables of the parse_from_input harness, idle in main.
HarnessIdle ==
    /\ text = <<>>
    /\ sort = "Input"
    /\ result = NotCalled

Init ==
    /\ env \in Envs
    /\ pc = "start"
    /\ inputText = <<>>
    /\ outputText = <<>>
    /\ input = <<>>
    /\ output = <<>>
    /\ pairs = <<>>
    /\ calls = <<>>
    /\ stdout = <<>>
    /\ exit = "running"
    /\ HarnessIdle

AssertFailed == "assertion failed: before.name, after.name"

\* Lines 60-63.
Start ==
    /\ pc = "start"
    /\ IF ~env.url
       THEN /\ exit' = "NO URL ARGUMENT PROVIDED"
            /\ pc' = "done"
            /\ UNCHANGED stdout
       ELSE /\ stdout' = Append(stdout, Line("fetching", <<Lit("FETCHING ")>>, NoPair))
            /\ pc' = "fetch"
            /\ UNCHANGED exit
    /\ UNCHANGED <<text, sort, result, env, inputText, outputText, input,
                   output, pairs, calls>>

\* Lines 65-75.
Fetch ==
    /\ pc = "fetch"
    /\ LET m == FetchCheck(env)
       IN  IF m = "ok"
           THEN pc' = "extract" /\ UNCHANGED exit
           ELSE pc' = "done" /\ exit' = m
    /\ UNCHANGED <<text, sort, result, env, inputText, outputText, input,
                   output, pairs, calls, stdout>>

\* Lines 77-94.
ExtractBlocks ==
    /\ pc = "extract"
    /\ LET x == Extract(env.body)
       IN  IF x.msg = "ok"
           THEN /\ inputText' = x.input
                /\ outputText' = x.output
                /\ pc' = "parse_input"
                /\ UNCHANGED exit
           ELSE /\ exit' = x.msg
                /\ pc' = "done"
                /\ UNCHANGED <<inputText, outputText>>
    /\ UNCHANGED <<text, sort, result, env, input, output, pairs, calls, stdout>>

\* Line 98.
ParseInput ==
    /\ pc = "parse_input"
    /\ calls' = Append(calls, "Input")
    /\ LET r == parse_from_input(inputText, "Input")
       IN  IF r.ok
           THEN input' = r.val /\ pc' = "parse_output" /\ UNCHANGED exit
           ELSE exit' = r.err.kind /\ pc' = "done" /\ UNCHANGED input
    /\ UNCHANGED <<text, sort, result, env, inputText, outputText, output,
                   pairs, stdout>>

\* Line 99.
ParseOutput ==
    /\ pc = "parse_output"
    /\ calls' = Append(calls, "Output")
    /\ LET r == parse_from_input(outputText, "Output")
       IN  IF r.ok
           THEN output' = r.val /\ pc' = "score" /\ UNCHANGED exit
           ELSE exit' = r.err.kind /\ pc' = "done" /\ UNCHANGED output
    /\ UNCHANGED <<text, sort, result, env, inputText, outputText, input,
                   pairs, stdout>>

\* Lines 101-112.  (`input` and `output` are moved into the zip; the model
\* keeps them as the record of what was parsed.)
Score ==
    /\ pc = "score"
    /\ pairs' = sort_by(ScoredPairs(input, output))
    /\ pc' = "header"
    /\ UNCHANGED <<text, sort, result, env, inputText, outputText, input,
                   output, calls, stdout, exit>>

\* Lines 114-120.
PrintHeader ==
    /\ pc = "header"
    /\ stdout' = stdout \o Header
    /\ pc' = "rows"
    /\ UNCHANGED <<text, sort, result, env, inputText, outputText, input,
                   output, pairs, calls, exit>>

\* Lines 121-137: one iteration of the loop.  A failed assert_eq! panics.
PrintRow ==
    /\ pc = "rows"
    /\ pairs # <<>>
    /\ LET p == Head(pairs)
       IN  IF p.before.name # p.after.name
           THEN /\ exit' = AssertFailed
                /\ pc' = "done"
                /\ UNCHANGED <<stdout, pairs>>
           ELSE /\ stdout' = Append(stdout, Row(p))
                /\ pairs' = Tail(pairs)
                /\ UNCHANGED <<pc, exit>>
    /\ UNCHANGED <<text, sort, result, env, inputText, outputText, input,
                   output, calls>>

\* Line 139, after the last iteration.
ReturnOk ==
    /\ pc = "rows"
    /\ pairs = <<>>
    /\ exit' = "ok"
    /\ pc' = "done"
    /\ UNCHANGED <<text, sort, result, env, inputText, outputText, input,
                   output, pairs, calls, stdout>>

Next ==
    \/ Start
    \/ Fetch
    \/ ExtractBlocks
    \/ ParseInput
    \/ ParseOutput
    \/ Score
    \/ PrintHeader
    \/ PrintRow
    \/ ReturnOk

Spec == Init /\ [][Next]_vars

-----------------------------------------------------------------------------
(* Claims about main (checked under Spec).                                  *)

IsRow(l) == l.kind = "row"

\* The option rows printed so far.
Rows == SelectSeq(stdout, IsRow)

\* a < b, for finite a and b.
RatLess(a, b) == a.n * b.d < b.n * a.d

\* C1: a run that completes successfully has paired sequences of the same
\* length with equal names at every index.
C1_PairingChecked ==
    exit = "ok" =>
        /\ Len(input) = Len(output)
        /\ \A i \in 1..Len(input) : input[i].name = output[i].name

\* What does hold of a successful run: the names are equal at every index
\* both sequences have.
C1_NamesChecked ==
    exit = "ok" =>
        \A i \in 1..Min(Len(input), Len(output)) : input[i].name = output[i].name

\* C5: the change fraction of every pair is (after - before) / (max - min) of
\* the before-record, an absent max counting as +inf and an absent min as
\* -inf: it is 0 when a bound is absent, -1/49 for (6, 1..50 -> 5), and 0
\* for equal values within bounds min < max.
C5_ChangeFraction ==
    \A i \in 1..Len(pairs) :
        LET b  == pairs[i].before
            a  == pairs[i].after
            f  == pairs[i].frac
            dn == a.value.n * b.value.d - b.value.n * a.value.d
            dd == a.value.d * b.value.d
            rn == b.max.v.n * b.min.v.d - b.min.v.n * b.max.v.d
            rd == b.max.v.d * b.min.v.d
        IN  /\ (b.min.some /\ b.max.some /\ b.min.v # b.max.v) =>
                 (f.k = "fin" /\ f.n * dd * rn = f.d * dn * rd)
            /\ (~b.min.some \/ ~b.max.some) => (f.k = "fin" /\ f.n = 0)
            /\ (/\ b.value = Fin(6, 1) /\ a.value = Fin(5, 1)
                /\ b.min = Some(Fin(1, 1)) /\ b.max = Some(Fin(50, 1))) =>
                 (f.k = "fin" /\ f.n = -1 /\ f.d = 49)
            /\ (/\ a.value = b.value /\ b.min.some /\ b.max.some
                /\ RatLess(b.min.v, b.max.v)) =>
                 (f.k = "fin" /\ f.n = 0)

\* Pairs are scored of which one changes by -1/49 of its range and another
\* has no bounds, a changed value and a change fraction of 0.
C5_Witness ==
    /\ pc = "header"
    /\ \E i \in 1..Len(pairs) :
          /\ pairs[i].before.min.some
          /\ pairs[i].frac = Fin(-1, 49)
    /\ \E i \in 1..Len(pairs) :
          /\ ~pairs[i].before.min.some
          /\ ~pairs[i].before.max.some
          /\ pairs[i].after.value # pairs[i].before.value
          /\ pairs[i].frac = Fin(0, 1)

\* |x| >= |y| in the total order of magnitudes: finite < infinite < NaN.
MagGeq(x, y) ==
    \/ x.k = "nan"
    \/ x.k \in {"pinf", "ninf"} /\ y.k # "nan"
    \/ x.k = "fin" /\ y.k = "fin" /\ Abs(x.n) * y.d >= Abs(y.n) * x.d

\* C6: of two consecutive rows the first has the greater or equal absolute
\* change fraction, and rows of equal absolute change fraction keep their
\* positional order.
C6_RowsRanked ==
    \A i \in 1..(Len(Rows) - 1) :
        LET x == Rows[i].pair
            y == Rows[i + 1].pair
        IN  /\ MagGeq(x.frac, y.frac)
            /\ MagGeq(y.frac, x.frac) => x.pos < y.pos

\* Options that change by 1/2, 1/50, 1/10 (in this order on the page) are
\* reported in the order 1/2, 1/10, 1/50.
C6_Witness ==
    /\ exit = "ok"
    /\ Len(Rows) = 3
    /\ Rows[1].pair = [pos |-> 1, frac |-> Fin(1, 2)]
    /\ Rows[2].pair = [pos |-> 3, frac |-> Fin(1, 10)]
    /\ Rows[3].pair = [pos |-> 2, frac |-> Fin(1, 50)]

FetchFailures ==
    {"NO URL ARGUMENT PROVIDED", "send failed", "invalid utf-8",
     "HTML CLOSING TAG NOT FOUND IN TEXT", "RESPONSE 200 OK NOT FOUND"}

\* Extraction has been attempted, parse_from_input called, or a line of the
\* report printed.
PastFetch ==
    \/ pc \notin {"start", "fetch", "done"}
    \/ pc = "done" /\ exit \notin FetchFailures
    \/ inputText # <<>>
    \/ outputText # <<>>
    \/ calls # <<>>
    \/ \E i \in 1..Len(stdout) : stdout[i].kind # "fetching"

\* C8: extraction, parsing and the report are reached only if the response
\* has status 200 and its body contains "</html>"; otherwise the run fails
\* before them.
C8_FetchGuards ==
    PastFetch => (env.status_code = 200 /\ contains(env.body, HtmlClose))

\* A 200 response whose body has the spsa-input marker but no "</html>" ends
\* the run with the closing-tag error.
C8_Witness ==
    /\ pc = "done"
    /\ exit = "HTML CLOSING TAG NOT FOUND IN TEXT"
    /\ env.status_code = 200
    /\ contains(env.body, SpsaInput)
    /\ contains(env.body, SpsaOutput)

\* The number of decimal digits of the natural number q (1 for 0).
DigitCount(q) ==
    CHOOSE k \in 1..20 : q < Pow10(k) /\ (k = 1 \/ q >= Pow10(k - 1))

\* The integer part of |x|.
IntegerPart(x) == Abs(x.n) \div x.d

Max(a, b) == IF a > b THEN a ELSE b

\* C9 (as claimed): the padding of a row is max(0, 36 - (name length +
\* digit-count of the integer part of |before| + 1 if before < 0)).
C9_PadByDigitCount ==
    \A i \in 1..Len(Rows) :
        LET r == Rows[i].segs
        IN  r[3].n = Max(0, 36 - (Len(r[1].chars)
                                   + DigitCount(IntegerPart(r[5].x))
                                   + (IF r[5].x.n < 0 THEN 1 ELSE 0)))

\* C9 (amended): the padding of a row is max(0, 36 - (name length +
\* (digit-count of the integer part of |before|) - 1 + 1 if before < 0)),
\* and is never negative.
C9_PadByDigitCountLessOne ==
    \A i \in 1..Len(Rows) :
        LET r == Rows[i].segs
        IN  /\ r[3].kind = "run" /\ r[3].str = "."
            /\ r[3].n >= 0
            /\ r[3].n = Max(0, 36 - (Len(r[1].chars)
                                      + (DigitCount(IntegerPart(r[5].x)) - 1)
                                      + (IF r[5].x.n < 0 THEN 1 ELSE 0)))

\* The six rows of the test module's example are printed: 19 dots after
\* ASPIRATION_WINDOW (6), 25 after RFP_MARGIN (73), 10 after
\* HISTORY_PRUNING_MARGIN (-2500).
C9_Witness ==
    /\ exit = "ok"
    /\ Len(Rows) = 6
    /\ \E i \in 1..6 : /\ Len(Rows[i].segs[1].chars) = 17
                       /\ Rows[i].segs[5].x = Fin(6, 1)
                       /\ Rows[i].segs[3].n = 19
    /\ \E i \in 1..6 : /\ Len(Rows[i].segs[1].chars) = 10
                       /\ Rows[i].segs[5].x = Fin(73, 1)
                       /\ Rows[i].segs[3].n = 25
    /\ \E i \in 1..6 : /\ Len(Rows[i].segs[1].chars) = 22
                       /\ Rows[i].segs[5].x = Fin(-2500, 1)
                       /\ Rows[i].segs[3].n = 10

\* A row whose name fills the whole budget has no padding.
C9_ClampReached ==
    \E i \in 1..Len(Rows) :
        /\ Len(Rows[i].segs[1].chars) + 1 > 36
        /\ Rows[i].segs[5].x = Fin(73, 1)
        /\ Rows[i].segs[3].n = 0

\* C10: a run that fails has printed no option row.
C10_AllOrNothing ==
    (pc = "done" /\ exit # "ok") => Len(Rows) = 0

=============================================================================
